---- MODULE Spec2Model ----
(***************************************************************************)
(* AuthService (core/services/auth.service.ts) together with the           *)
(* LoginComponent that drives it: the session cell, the persisted token,   *)
(* the login requests in flight, and the login form with its effect.       *)
(*                                                                         *)
(* Encoding of JavaScript values:                                          *)
(*   - a string holding a token is written as the sequence of its          *)
(*     dot-separated segments, "a.b.c" being <<"a", "b", "c">> and the     *)
(*     empty string <<"">>; an absent localStorage entry is <<>>;          *)
(*   - null is the record Null; undefined as a property value is the       *)
(*     string Undefined, which no payload contains.                        *)
(***************************************************************************)
EXTENDS Integers, Sequences, FiniteSets

\* ------------------------------------------------------------------ bounds
MaxRequests == 2

\* --------------------------------------------------------------- JS values
Null == [null |-> TRUE]
Undefined == "<undefined>"

\* String(v) as used by template literals and by atob's argument conversion
JsString(v) == IF v = Undefined THEN "undefined" ELSE v

\* ------------------------------------------------------------------ tokens
NoToken == <<>>
EmptyString == <<"">>

HeaderSeg == "eyJhbGciOiJIUzI1NiJ9"
AliceSeg == "eyJzdWIiOiIxIiwiZW1haWwiOiJhbGljZUB4LmlvIiwibmFtZSI6IkFsaWNlIn0="
BobSeg == "eyJzdWIiOiIyIiwiZW1haWwiOiJib2JAeC5pbyIsIm5hbWUiOiJCb2IiLCJleHAiOjF9"

\* a well-formed token
TokAlice == <<HeaderSeg, AliceSeg, "sig">>
\* a token with a forged signature whose exp claim (1) is long past
TokBobExpired == <<HeaderSeg, BobSeg, "forged">>
\* no second segment
TokNoDot == <<"garbage">>
\* second segment is not base64
TokBadBase64 == <<HeaderSeg, "!!", "sig">>
\* second segment is base64 of text that is not JSON
TokNotJson == <<HeaderSeg, "bm90IGpzb24=", "sig">>
\* second segment is base64 of the JSON text null
TokJsonNull == <<HeaderSeg, "bnVsbA==", "sig">>
\* second segment is base64 of the JSON text 5
TokJsonNumber == <<HeaderSeg, "NQ==", "sig">>

Tokens ==
  {TokAlice, TokBobExpired, TokNoDot, TokBadBase64, TokNotJson, TokJsonNull,
   TokJsonNumber}

\* ----------------------------------------------------------------- decoding
\* token.split('.')[1]
SecondSegment(token) == IF Len(token) >= 2 THEN token[2] ELSE Undefined

\* atob(x): the decoded text, or an InvalidCharacterError
Atob(x) ==
  LET s == JsString(x) IN
  CASE s = AliceSeg ->
         [ok |-> TRUE,
          text |-> "{\"sub\":\"1\",\"email\":\"alice@x.io\",\"name\":\"Alice\"}"]
    [] s = BobSeg ->
         [ok |-> TRUE,
          text |-> "{\"sub\":\"2\",\"email\":\"bob@x.io\",\"name\":\"Bob\",\"exp\":1}"]
    [] s = "bm90IGpzb24=" -> [ok |-> TRUE, text |-> "not json"]
    [] s = "bnVsbA==" -> [ok |-> TRUE, text |-> "null"]
    [] s = "NQ==" -> [ok |-> TRUE, text |-> "5"]
    [] OTHER -> [ok |-> FALSE, text |-> ""]

\* JSON.parse(text): the value, or a SyntaxError.  An object is given by the
\* three properties the service reads; a property it lacks reads undefined.
JSONParse(text) ==
  CASE text = "{\"sub\":\"1\",\"email\":\"alice@x.io\",\"name\":\"Alice\"}" ->
         [ok |-> TRUE, kind |-> "object",
          sub |-> "1", email |-> "alice@x.io", name |-> "Alice"]
    [] text = "{\"sub\":\"2\",\"email\":\"bob@x.io\",\"name\":\"Bob\",\"exp\":1}" ->
         [ok |-> TRUE, kind |-> "object",
          sub |-> "2", email |-> "bob@x.io", name |-> "Bob"]
    [] text = "null" ->
         [ok |-> TRUE, kind |-> "null",
          sub |-> Undefined, email |-> Undefined, name |-> Undefined]
    [] text = "5" ->
         [ok |-> TRUE, kind |-> "number",
          sub |-> Undefined, email |-> Undefined, name |-> Undefined]
    [] OTHER ->
         [ok |-> FALSE, kind |-> "none",
          sub |-> Undefined, email |-> Undefined, name |-> Undefined]

\* the user returned by the catch block
FallbackUser == [id |-> "", email |-> "", name |-> ""]

\* decodeUserFromToken(token): the user returned and whether the catch block
\* ran (and logged 'Failed to decode JWT').  Reading a property of null
\* throws a TypeError; reading one of a number yields undefined.
decodeUserFromToken(token) ==
  LET decoded == Atob(SecondSegment(token))
      payload == JSONParse(decoded.text)
  IN IF ~decoded.ok \/ ~payload.ok \/ payload.kind = "null"
       THEN [user |-> FallbackUser, caught |-> TRUE]
       ELSE [user |-> [id |-> payload.sub, email |-> payload.email,
                       name |-> payload.name],
             caught |-> FALSE]

\* a check that lets the empty string through
IsFalsyNullOnly(token) == token = NoToken

\* !token for a string-or-absent value
IsFalsy(token) == token = NoToken \/ token = EmptyString

\* --------------------------------------------------------------- responses
\* What the backend can answer to POST /api/auth/login:
\*   error    - network or HTTP error (the error callback)
\*   nullBody - 2xx with an empty body, res is null
\*   noData   - 2xx, body without a data property
\*   nullData - 2xx, data is null
\*   data     - 2xx, data is a string
Responses ==
  {[kind |-> k, data |-> NoToken] : k \in {"error", "nullBody", "noData", "nullData"}}
    \cup {[kind |-> "data", data |-> t] : t \in Tokens \cup {EmptyString}}

NoResponse == [kind |-> "none", data |-> NoToken]

\* console.error messages of the service
LogNoToken == "Login response did not include token."
LogLoginFailed == "Login failed"
LogDecodeFailed == "Failed to decode JWT"

\* ------------------------------------------------------------- AuthService
\* The handlers below map the service state st = [user, message, storage]
\* to the state they leave, with the navigation they request ("" for none),
\* what they write to the console and whether they throw.

\* isLoggedIn = computed(() => !!this._user())
isLoggedIn(u) == u # Null

\* restoreUser() without its early return
restoreUserNoGuard(st) ==
  LET d == decodeUserFromToken(st.storage) IN
  [user |-> d.user, message |-> st.message, storage |-> st.storage,
   nav |-> "",
   console |-> IF d.caught THEN {LogDecodeFailed} ELSE {},
   thrown |-> FALSE]

\* restoreUser()
restoreUser(st) ==
  IF IsFalsy(st.storage)
    THEN [user |-> st.user, message |-> st.message, storage |-> st.storage,
          nav |-> "", console |-> {}, thrown |-> FALSE]
    ELSE LET d == decodeUserFromToken(st.storage) IN
         [user |-> d.user, message |-> st.message, storage |-> st.storage,
          nav |-> "",
          console |-> IF d.caught THEN {LogDecodeFailed} ELSE {},
          thrown |-> FALSE]

\* the next callback without localStorage.setItem
loginNextNoStore(res, st) ==
  IF res.kind = "nullBody"
    THEN [user |-> st.user, message |-> st.message, storage |-> st.storage,
          nav |-> "", console |-> {}, thrown |-> TRUE]
  ELSE IF res.kind \in {"noData", "nullData"} \/ IsFalsy(res.data)
    THEN [user |-> st.user, message |-> st.message, storage |-> st.storage,
          nav |-> "", console |-> {LogNoToken}, thrown |-> FALSE]
  ELSE LET d == decodeUserFromToken(res.data) IN
         [user |-> d.user,
          message |-> [text |-> "Welcome back, " \o JsString(d.user.name) \o "!"],
          storage |-> st.storage,
          nav |-> "/",
          console |-> IF d.caught THEN {LogDecodeFailed} ELSE {},
          thrown |-> FALSE]

\* the next callback of login()
loginNext(res, st) ==
  IF res.kind = "nullBody"
    THEN \* res.data on null: TypeError out of the callback
         [user |-> st.user, message |-> st.message, storage |-> st.storage,
          nav |-> "", console |-> {}, thrown |-> TRUE]
  ELSE IF res.kind \in {"noData", "nullData"} \/ IsFalsy(res.data)
    THEN [user |-> st.user, message |-> st.message, storage |-> st.storage,
          nav |-> "", console |-> {LogNoToken}, thrown |-> FALSE]
  ELSE LET d == decodeUserFromToken(res.data) IN
         [user |-> d.user,
          message |-> [text |-> "Welcome back, " \o JsString(d.user.name) \o "!"],
          storage |-> res.data,
          nav |-> "/",
          console |-> IF d.caught THEN {LogDecodeFailed} ELSE {},
          thrown |-> FALSE]

\* an error callback that also drops the stored token
loginErrorClearsToken(st) ==
  [user |-> st.user, message |-> st.message, storage |-> NoToken,
   nav |-> "", console |-> {LogLoginFailed}, thrown |-> FALSE]

\* the error callback of login()
loginError(st) ==
  [user |-> st.user, message |-> st.message, storage |-> st.storage,
   nav |-> "", console |-> {LogLoginFailed}, thrown |-> FALSE]

\* logout() without this._user.set(null)
logoutKeepsUser(st) ==
  [user |-> st.user, message |-> Null, storage |-> NoToken,
   nav |-> "/auth/login", console |-> {}, thrown |-> FALSE]

\* logout() without this.loginSuccessMessage.set(null)
logoutKeepsMessage(st) ==
  [user |-> Null, message |-> st.message, storage |-> NoToken,
   nav |-> "/auth/login", console |-> {}, thrown |-> FALSE]

\* logout()
logout(st) ==
  [user |-> Null, message |-> Null, storage |-> NoToken,
   nav |-> "/auth/login", console |-> {}, thrown |-> FALSE]

\* ---------------------------------------------------------- LoginComponent
\* form.value: the initial controls hold '', form.reset() leaves null
InitialForm == [email |-> "", password |-> ""]
ResetForm == [email |-> "<null>", password |-> "<null>"]
\* what a user can type
FormInputs ==
  {[email |-> "not-an-email", password |-> "pw"],
   [email |-> "alice@x.io", password |-> ""],
   [email |-> "alice@x.io", password |-> "pw"]}

\* Validators.required on both controls, Validators.email on email
FormValid(f) ==
  /\ f.email \notin {"", "<null>"}
  /\ f.email = "alice@x.io"
  /\ f.password \notin {"", "<null>"}

\* { email: email ?? '', password: password ?? '' }
Credentials(f) ==
  [email |-> IF f.email = "<null>" THEN "" ELSE f.email,
   password |-> IF f.password = "<null>" THEN "" ELSE f.password]

\* the condition of the effect: !this.auth.loginSuccessMessage()
MessageFalsy(m) == m = Null \/ m = [text |-> ""]

\* -------------------------------------------------------------------- state
VARIABLES
  phase,                \* "unloaded" before AuthService is constructed, then "running"
  storage,              \* localStorage entry 'token'
  user,                 \* the _user signal
  loginSuccessMessage,  \* the loginSuccessMessage signal
  pending,              \* login requests in flight: [id, credentials]
  alive,                \* a LoginComponent exists
  form,                 \* its form.value
  effectDirty,          \* its effect is scheduled to run
  last,                 \* the handler that ran last and what it did
  stale,                \* ids of requests in flight that were issued before a logout
  sinceLogout,          \* "never": no logout yet; "none": no login() since the
                        \* last logout; "login": login() called since
  resetOwed             \* a logout happened and form.reset() has not run since

vars ==
  <<phase, storage, user, loginSuccessMessage, pending, alive, form,
    effectDirty, last, stale, sinceLogout, resetOwed>>

ReqIds == 1..MaxRequests

State == [user |-> user, message |-> loginSuccessMessage, storage |-> storage]

Event(op, res, wasStale, out) ==
  [op |-> op, res |-> res, stale |-> wasStale, nav |-> out.nav,
   console |-> out.console, thrown |-> out.thrown]

Quiet == [nav |-> "", console |-> {}, thrown |-> FALSE]

\* signal.set(v) notifies the effect only when the value changes
Notified(old, new) == old # new

\* A scheduled effect runs in the change detection that follows the handler
\* that scheduled it, before the browser dispatches the next event.
EffectsFlushed == ~effectDirty

\* The page is loaded with whatever an earlier visit left in localStorage;
\* the signals hold their field initialisers.
Init ==
  /\ phase = "unloaded"
  /\ storage \in Tokens \cup {NoToken, EmptyString}
  /\ user = Null
  /\ loginSuccessMessage = Null
  /\ pending = {}
  /\ alive = FALSE
  /\ form = InitialForm
  /\ effectDirty = FALSE
  /\ last = Event("load", NoResponse, FALSE, Quiet)
  /\ stale = {}
  /\ sinceLogout = "never"
  /\ resetOwed = FALSE

\* constructor() { this.restoreUser(); }
Constructor ==
  /\ phase = "unloaded"
  /\ LET out == restoreUser(State) IN
       /\ user' = out.user
       /\ loginSuccessMessage' = out.message
       /\ storage' = out.storage
       /\ last' = Event("constructor", NoResponse, FALSE, out)
  /\ phase' = "running"
  /\ UNCHANGED <<pending, alive, form, effectDirty, stale, sinceLogout, resetOwed>>

\* the router activates auth/login: the component constructor builds the
\* form and registers the effect, which is scheduled for its first run
CreateLoginComponent ==
  /\ phase = "running"
  /\ ~alive
  /\ alive' = TRUE
  /\ form' = InitialForm
  /\ effectDirty' = TRUE
  /\ last' = Event("create", NoResponse, FALSE, Quiet)
  /\ UNCHANGED <<phase, storage, user, loginSuccessMessage, pending, stale,
                 sinceLogout, resetOwed>>

\* effect(() => { if (!this.auth.loginSuccessMessage()) this.form.reset(); })
RunEffect ==
  /\ alive
  /\ effectDirty
  /\ effectDirty' = FALSE
  /\ IF MessageFalsy(loginSuccessMessage)
       THEN form' = ResetForm /\ resetOwed' = FALSE
       ELSE UNCHANGED <<form, resetOwed>>
  /\ last' = Event("effect", NoResponse, FALSE, Quiet)
  /\ UNCHANGED <<phase, storage, user, loginSuccessMessage, pending, alive,
                 stale, sinceLogout>>

\* the user edits the form
TypeInForm(f) ==
  /\ alive
  /\ EffectsFlushed
  /\ form' = f
  /\ last' = Event("type", NoResponse, FALSE, Quiet)
  /\ UNCHANGED <<phase, storage, user, loginSuccessMessage, pending, alive,
                 effectDirty, stale, sinceLogout, resetOwed>>

\* login(credentials): the POST is sent and its callbacks registered
login(credentials) ==
  /\ \E id \in ReqIds :
       /\ \A r \in pending : r.id # id
       /\ \A other \in ReqIds : other < id => \E r \in pending : r.id = other
       /\ pending' = pending \cup {[id |-> id, credentials |-> credentials]}
  /\ sinceLogout' = IF sinceLogout = "never" THEN "never" ELSE "login"

\* onSubmit()
OnSubmit ==
  /\ alive
  /\ EffectsFlushed
  /\ IF ~FormValid(form)
       THEN UNCHANGED <<pending, sinceLogout>>
       ELSE login(Credentials(form))
  /\ last' = Event("onSubmit", NoResponse, FALSE, Quiet)
  /\ UNCHANGED <<phase, storage, user, loginSuccessMessage, alive, form,
                 effectDirty, stale, resetOwed>>

\* a variant in which logout() unsubscribes the requests in flight: the
\* response to a request issued before a logout is dropped
RespondCancelled(r, res) ==
  /\ phase = "running"
  /\ EffectsFlushed
  /\ r \in pending
  /\ LET out == IF r.id \in stale THEN Quiet
                ELSE IF res.kind = "error" THEN loginError(State)
                ELSE loginNext(res, State)
     IN IF r.id \in stale
          THEN /\ UNCHANGED <<user, effectDirty, loginSuccessMessage, storage>>
               /\ last' = Event("response", res, TRUE, out)
          ELSE /\ user' = out.user
               /\ effectDirty' = (effectDirty \/ (alive /\ Notified(loginSuccessMessage, out.message)))
               /\ loginSuccessMessage' = out.message
               /\ storage' = out.storage
               /\ last' = Event("response", res, FALSE, out)
  /\ pending' = pending \ {r}
  /\ stale' = stale \ {r.id}
  /\ UNCHANGED <<phase, alive, form, sinceLogout, resetOwed>>

\* a response to a request in flight arrives and its callback runs
Respond(r, res) ==
  /\ phase = "running"
  /\ EffectsFlushed
  /\ r \in pending
  /\ LET out == IF res.kind = "error" THEN loginError(State)
                ELSE loginNext(res, State)
     IN /\ user' = out.user
        /\ effectDirty' = (effectDirty \/ (alive /\ Notified(loginSuccessMessage, out.message)))
        /\ loginSuccessMessage' = out.message
        /\ storage' = out.storage
        /\ last' = Event("response", res, r.id \in stale, out)
  /\ pending' = pending \ {r}
  /\ stale' = stale \ {r.id}
  /\ UNCHANGED <<phase, alive, form, sinceLogout, resetOwed>>

\* the logout button of AppComponent
Logout ==
  /\ phase = "running"
  /\ EffectsFlushed
  /\ LET out == logout(State) IN
       /\ user' = out.user
       /\ effectDirty' = (effectDirty \/ (alive /\ Notified(loginSuccessMessage, out.message)))
       /\ loginSuccessMessage' = out.message
       /\ storage' = out.storage
       /\ last' = Event("logout", NoResponse, FALSE, out)
  /\ stale' = {r.id : r \in pending}
  /\ sinceLogout' = "none"
  /\ resetOwed' = alive
  /\ UNCHANGED <<phase, pending, alive, form>>

\* the page is reloaded: everything in memory is gone, localStorage stays
Reload ==
  /\ phase = "running"
  /\ phase' = "unloaded"
  /\ user' = Null
  /\ loginSuccessMessage' = Null
  /\ pending' = {}
  /\ alive' = FALSE
  /\ form' = InitialForm
  /\ effectDirty' = FALSE
  /\ last' = Event("load", NoResponse, FALSE, Quiet)
  /\ stale' = {}
  /\ sinceLogout' = "never"
  /\ resetOwed' = FALSE
  /\ UNCHANGED storage

Next ==
  \/ Constructor
  \/ CreateLoginComponent
  \/ RunEffect
  \/ \E f \in FormInputs : TypeInForm(f)
  \/ OnSubmit
  \/ \E r \in pending, res \in Responses : Respond(r, res)
  \/ Logout
  \/ Reload

Spec == Init /\ [][Next]_vars

\* Angular runs a scheduled effect during the next change detection
LiveSpec == Spec /\ WF_vars(RunEffect)

TypeOK ==
  /\ phase \in {"unloaded", "running"}
  /\ storage \in Tokens \cup {NoToken, EmptyString}
  /\ alive \in BOOLEAN
  /\ effectDirty \in BOOLEAN
  /\ Cardinality(pending) <= MaxRequests
  /\ stale \subseteq {r.id : r \in pending}

\* ================================================================== claims
AliceUser == [id |-> "1", email |-> "alice@x.io", name |-> "Alice"]
BobUser == [id |-> "2", email |-> "bob@x.io", name |-> "Bob"]

\* a token that is not a JWT: no second segment, a second segment that is
\* not base64, or a payload that is not a JSON object
Malformed(token) ==
  /\ token \in Tokens
  /\ \/ Len(token) < 2
     \/ ~Atob(token[2]).ok
     \/ ~JSONParse(Atob(token[2]).text).ok
     \/ JSONParse(Atob(token[2]).text).kind # "object"

\* the responses of a failed login: an error, or a body without a token
FailureResponses ==
  {res \in Responses :
     res.kind \in {"error", "noData", "nullData"}
       \/ (res.kind = "data" /\ res.data = EmptyString)}

\* C1: whenever localStorage holds no 'token' entry there is no session:
\* the user cell is null and isLoggedIn is false.
C1_NoTokenNoSession ==
  storage = NoToken => (user = Null /\ ~isLoggedIn(user))

\* a failed response arrived while nothing is stored
C1_Witness ==
  /\ last.op = "response"
  /\ last.res \in FailureResponses
  /\ storage = NoToken
  /\ sinceLogout = "login"

\* C2: right after logout() the user cell is null, isLoggedIn is false,
\* loginSuccessMessage is null, localStorage has no 'token' entry and a
\* navigation to '/auth/login' has been requested.
C2_LogoutClears ==
  last.op = "logout" =>
    /\ user = Null
    /\ ~isLoggedIn(user)
    /\ loginSuccessMessage = Null
    /\ storage = NoToken
    /\ last.nav = "/auth/login"

\* a logout has run while a login request was in flight
C2_Witness ==
  /\ last.op = "logout"
  /\ stale # {}
  /\ resetOwed

\* C3: after the next callback handled a response whose data is a non-empty
\* token, that token is stored under 'token', the user cell is the user
\* decoded from it, isLoggedIn is true, loginSuccessMessage is a welcome
\* message and a navigation to '/' has been requested.
C3_LoginSuccess ==
  (last.op = "response" /\ last.res.kind = "data" /\ ~IsFalsy(last.res.data)) =>
    /\ storage = last.res.data
    /\ user = decodeUserFromToken(last.res.data).user
    /\ isLoggedIn(user)
    /\ loginSuccessMessage # Null
    /\ loginSuccessMessage = [text |-> "Welcome back, " \o JsString(user.name) \o "!"]
    /\ last.nav = "/"
    /\ (last.res.data = TokAlice =>
          user = AliceUser /\ loginSuccessMessage = [text |-> "Welcome back, Alice!"])

\* Alice's token arrived in answer to a request that a logout had overtaken
C3_Witness ==
  /\ last.op = "response"
  /\ last.res = [kind |-> "data", data |-> TokAlice]
  /\ last.stale
  /\ user = AliceUser

\* C4: the constructor leaves the user cell null when localStorage holds no
\* token or an empty one, and otherwise sets it to the user decoded from
\* the stored token, forged signature and past expiry included; it leaves
\* localStorage and the null loginSuccessMessage alone and requests no
\* navigation.
C4_Restore ==
  [][(phase = "unloaded" /\ phase' = "running") =>
       /\ IsFalsy(storage) => (user' = Null /\ ~isLoggedIn(user'))
       /\ ~IsFalsy(storage) => user' = decodeUserFromToken(storage).user
       /\ storage = TokBobExpired => user' = BobUser
       /\ storage' = storage
       /\ loginSuccessMessage = Null
       /\ loginSuccessMessage' = Null
       /\ last'.nav = ""]_vars

\* the constructor has restored the session of the expired, forged token
C4_Witness ==
  /\ last.op = "constructor"
  /\ storage = TokBobExpired
  /\ user = BobUser

\* C5: a failed login (error, or a response without a token) is logged to
\* the console only: user cell, stored token and loginSuccessMessage keep
\* their values, no navigation is requested and no request is issued.
C5_FailureLeavesState ==
  [][(last'.op = "response" /\ last'.res \in FailureResponses) =>
       /\ user' = user
       /\ storage' = storage
       /\ loginSuccessMessage' = loginSuccessMessage
       /\ last'.nav = ""
       /\ last'.console # {}
       /\ ~last'.thrown
       /\ pending' \subseteq pending
       /\ Cardinality(pending') = Cardinality(pending) - 1]_vars

\* a login failed while a session was established, and the session stayed
C5_Witness ==
  /\ last.op = "response"
  /\ last.res \in FailureResponses
  /\ user = AliceUser
  /\ storage = TokAlice
  /\ loginSuccessMessage # Null

\* C6: decoding a malformed JWT never throws out of the service and yields
\* the fallback user: after the login callback or the constructor handled
\* one, nothing was thrown and the user cell is {id: '', email: '', name: ''}.
C6_MalformedYieldsFallback ==
  (\/ (last.op = "response" /\ last.res.kind = "data" /\ Malformed(last.res.data))
   \/ (last.op = "constructor" /\ Malformed(storage)))
    => (~last.thrown /\ user = FallbackUser)

\* C7: a login response whose token is a malformed JWT is handled as a
\* failure: it does not make isLoggedIn true, does not set
\* loginSuccessMessage, requests no navigation and persists no token.
C7_MalformedLoginIsFailure ==
  [][(last'.op = "response" /\ last'.res.kind = "data" /\ Malformed(last'.res.data)) =>
       /\ ~isLoggedIn(user) => ~isLoggedIn(user')
       /\ loginSuccessMessage = Null => loginSuccessMessage' = Null
       /\ last'.nav = ""
       /\ last'.console # {}
       /\ storage' # last'.res.data]_vars

\* C8: every logout that happens while a LoginComponent is alive is
\* eventually followed by a form.reset() of its effect.
C8_LogoutResetsForm == resetOwed ~> ~resetOwed

\* C9: whenever the user cell is non-null, localStorage holds a 'token'
\* entry and the user cell is the user decoded from it; whenever
\* loginSuccessMessage is non-null the user cell is non-null.
C9_SessionAgreesWithStorage ==
  /\ user # Null => (storage # NoToken /\ user = decodeUserFromToken(storage).user)
  /\ loginSuccessMessage # Null => user # Null

\* a response established a session while another request was in flight
C9_Witness ==
  /\ last.op = "response"
  /\ user = BobUser
  /\ storage = TokBobExpired
  /\ pending # {}

\* C10 as stated: once a logout has run and no login() was called since, a
\* response to an earlier request leaves the user cell null and no token.
C10_LogoutIsFinal ==
  (last.op = "response" /\ last.stale /\ sinceLogout = "none") =>
    (user = Null /\ storage = NoToken)

\* C10 amended: a logout does not cancel the requests in flight; when the
\* response to a request issued before it arrives with a non-empty token,
\* the session is re-established from that token although no login() was
\* called since the logout.
C10_LateResponseLogsIn ==
  (/\ last.op = "response"
   /\ last.stale
   /\ sinceLogout = "none"
   /\ last.res.kind = "data"
   /\ ~IsFalsy(last.res.data)) =>
    /\ storage = last.res.data
    /\ user = decodeUserFromToken(last.res.data).user
    /\ isLoggedIn(user)

\* Bob's token arrived after the logout, with no login() in between
C10_Witness ==
  /\ last.op = "response"
  /\ last.stale
  /\ sinceLogout = "none"
  /\ last.res.data = TokBobExpired
  /\ user = BobUser

====
